---- MODULE Spec2Model ----
(***************************************************************************)
(* Model of run_solver (old/solver.py): the epoch/batch training loop, the *)
(* training-snapshot cadence, the validation sub-loop, the two exception   *)
(* handlers around the loop and the final checkpoint write.                *)
(*                                                                         *)
(* One action per statement group of run_solver; pc holds the position of  *)
(* the run.  The external collaborators (train_fn, pred_fn, io.imsave,     *)
(* netdump, datagen.iterate, pickle.dump) are modelled by their effect on  *)
(* the run: they return, take time, or raise.  Wall-clock time is the      *)
(* integer variable now; it advances while an external call runs.          *)
(*                                                                         *)
(* The entry of run_solver (parameter binding, default timestamp, save     *)
(* directory) and the job loop of the script are modelled next to the run: *)
(* text is a sequence of one-character strings, so that str, int, replace  *)
(* and format are computed character by character.                         *)
(***************************************************************************)
EXTENDS Integers, Sequences, FiniteSets, TLC

(* ------------------------------ bounds --------------------------------- *)

\* Largest save_batch_freq passed to run_solver (1 is the smallest).
MaxBatchFreq == 2

\* Largest value of time.time() - (time at the start of the run).
MaxTime == 2

\* Number of exceptions (of either kind) raised during one run.
MaxRaises == 1

\* Largest number of model ids on the command line (-m takes one or more).
MaxJobs == 2

(* ------------------------- program constants --------------------------- *)

\* for epoch in range(20)
NumEpochs == 20

\* len(modellist)
NumModels == 2

\* save_time_freq // 10
ValBudgetDivisor == 10

(* ------------------------------ inputs --------------------------------- *)

\* Values of save_batch_freq passed to run_solver.
SaveBatchFreqs == 1..MaxBatchFreq

\* Values of save_time_freq passed to run_solver.
SaveTimeFreqs == {0, 1}

\* Numbers of training batches datagen.iterate(X, ...) yields per epoch.
TrainBatchCounts == {0, 1, 2}

\* Numbers of validation batches datagen.iterate(Xv, ...) yields.
ValBatchCounts == {0, 1, 2}

\* Seconds an external call can take.
Durations == {0, 1}

KeyboardInterrupt == "KeyboardInterrupt"

Exception == "Exception"

ExcKinds == {KeyboardInterrupt, Exception}

(* --------------------------- program state ----------------------------- *)

VARIABLES
  pc,               \* position of the run in run_solver
  nBatches,         \* batches per epoch of datagen.iterate(X, ...)
  nValBatches,      \* batches of datagen.iterate(Xv, ...)
  save_batch_freq,  \* parameter of run_solver
  save_time_freq,   \* parameter of run_solver
  now,              \* time.time()
  epoch,            \* loop variable of "for epoch in range(20)", -1 before the loop
  batch,            \* in-epoch batch counter
  val_batch,        \* in-epoch validation batch counter
  it,               \* batches the training iterator has yielded this epoch
  vit,              \* batches the validation iterator has yielded this pass
  snap,             \* training-snapshot clock
  val_snap,         \* validation clock
  cur,              \* (loss, reg) of the last train_fn return
  losses,           \* the list losses
  regs,             \* the list regs
  returned,         \* history: (loss, reg) of every train_fn return, in order
  trainWrites,      \* history: file names of this epoch's training io.imsave calls
  valWrites,        \* history: file names of this epoch's validation io.imsave calls
  ckpts,            \* history: the records pickle.dump has written
  nRaised,          \* history: number of exceptions raised so far
  lastExc,          \* history: kind of the last exception raised
  endedAt,          \* history: how the training loop ended
  interrupted,      \* history: a KeyboardInterrupt has been raised
  valFails,         \* history: validation passes ended by the bare except
  val_start,        \* history: time at which the current validation pass began
  passPreds,        \* history: pred_fn returns of the current validation pass
  rpc,              \* position of the call in the entry of run_solver
  experiment_id,    \* parameter of run_solver
  timestamp,        \* parameter of run_solver
  dataset,          \* parameter of run_solver
  dir_prefix,       \* parameter of run_solver
  savedir,          \* the save directory of the run
  mpc,              \* position of the script
  args,             \* parsed command line: model, hematoxylin, eosin, thickness, comment
  dataset_code,     \* the script's dataset_code
  tic,              \* the script's tic
  ji,               \* entries of joblist the for loop has taken
  model_id,         \* the script's model_id
  warnings,         \* history: model ids logged as invalid, in order
  started,          \* history: experiment ids of the runs begun, in order
  writes,           \* history: files the runs have written, with run and directory
  error             \* the exception that ended the script

prog == <<pc, now, epoch, batch, val_batch, it, vit, snap, val_snap, cur,
          losses, regs>>

hist == <<returned, trainWrites, valWrites, ckpts, nRaised, lastExc, endedAt,
          interrupted, valFails, val_start, passPreds>>

loopcfg == <<nBatches, nValBatches, save_batch_freq, save_time_freq>>

entry == <<rpc, experiment_id, timestamp, dataset, dir_prefix, savedir>>

script == <<mpc, args, dataset_code, tic, ji, model_id, warnings, started,
            writes, error>>

config == <<loopcfg, entry, script>>

vars == <<prog, hist, config>>

(* ------------------------------ values --------------------------------- *)

\* The loss train_fn returns at its n-th return (a token naming the invocation).
LossOf(n) == n

\* The regularization scalar train_fn returns at its n-th return.
RegOf(n) == 1000 + n

\* A scalar stored in a list.
Scalar(x) == [kind |-> "scalar", v |-> x]

\* A reference to the list regs itself, stored in a list.
RegsRef == [kind |-> "list", v |-> 0]

NoReturn == [loss |-> 0, reg |-> 0]

NoExc == "none"

\* "model{}_ep{}_b{}.png".format(experiment_id, epoch, batch)
TrainFile(e, b) == <<"model", e, b>>

\* "val_model{}_ep{}_b{}.png".format(experiment_id, epoch, val_batch)
ValFile(e, vb) == <<"val_model", e, vb>>

(* ----------------------------- positions ------------------------------- *)

\* Statements inside the inner try (lines 112-126).
ValTryPcs == {"val_iter", "pred", "val_imsave", "val_break"}

\* Statements inside the outer try but outside the inner one (lines 79-130).
OuterTryPcs == {"enter", "epoch", "iter", "train", "output", "imsave", "snap",
                "log", "regs", "valcheck", "val_snap"}

\* Statements after the outer try (lines 137-143).
FinalPcs == {"finalize", "dump"}

\* Where the run has ended.
EndPcs == {"done", "raised"}

\* Statements whose calls can raise an Exception; a KeyboardInterrupt can be
\* raised at any statement.
CallPcs == {"iter", "train", "imsave", "log", "val_iter", "pred", "val_imsave",
            "finalize", "dump"}

CanRaise(kind) == IF kind = KeyboardInterrupt
                  THEN ValTryPcs \cup OuterTryPcs \cup FinalPcs
                  ELSE CallPcs

\* Handler without the clause "except Exception" of the outer try.
HandlerNoExceptClause(p, kind) ==
  IF p \in ValTryPcs THEN "val_snap"
  ELSE IF p \in OuterTryPcs /\ kind = KeyboardInterrupt
       THEN "finalize"
       ELSE "raised"

\* Handler without the inner try around the validation run.
HandlerNoInnerTry(p, kind) ==
  IF p \in ValTryPcs \cup OuterTryPcs THEN "finalize" ELSE "raised"

\* Handler with a try around the training-snapshot write that resumes the
\* batch, as the inner try does for the validation run.
HandlerSnapshotCaught(p, kind) ==
  IF p \in ValTryPcs THEN "val_snap"
  ELSE IF p = "imsave" THEN "log"
  ELSE IF p \in OuterTryPcs /\ kind \in {KeyboardInterrupt, Exception}
       THEN "finalize"
       ELSE "raised"

\* The statement that runs after an exception of the given kind is raised at
\* position p: the bare except of the validation run, the two except clauses
\* of the outer try, or the caller of run_solver.
Handler(p, kind) ==
  IF p \in ValTryPcs THEN "val_snap"
  ELSE IF p \in OuterTryPcs /\ kind \in {KeyboardInterrupt, Exception}
       THEN "finalize"
       ELSE "raised"

(* ----------------------------- predicates ------------------------------ *)

\* SnapshotDue with >= for > in the time test.
SnapshotDueAtThreshold(b, t, s, bf, tf) == b % bf = 0 \/ t - s >= tf

\* batch % save_batch_freq == 0 or time.time() - snap > save_time_freq
SnapshotDue(b, t, s, bf, tf) == b % bf = 0 \/ t - s > tf

\* time.time() - val_snap > save_time_freq
ValidationDue(t, vs, tf) == t - vs > tf

\* ValBreakDue with the budget multiplied instead of divided.
ValBreakDueScaledUp(t, vs, tf) == t - vs > tf * ValBudgetDivisor

\* time.time() - val_snap > save_time_freq // 10
ValBreakDue(t, vs, tf) == t - vs > tf \div ValBudgetDivisor

\* An external call takes d seconds.
Elapse(d) ==
  /\ d \in Durations
  /\ now + d <= MaxTime
  /\ now' = now + d

(* ------------------------- text and timestamps ------------------------- *)

\* The decimal digits, as characters.
Digits == <<"0", "1", "2", "3", "4", "5", "6", "7", "8", "9">>

\* str(n) for an int n >= 0.
RECURSIVE IntToStr(_)
IntToStr(n) ==
  IF n < 10 THEN <<Digits[n + 1]>>
  ELSE IntToStr(n \div 10) \o <<Digits[(n % 10) + 1]>>

\* The value of a digit character.
DigitValue(c) == CHOOSE d \in 0..9 : Digits[d + 1] = c

\* int(s) for a string of digits.
RECURSIVE ParseInt(_)
ParseInt(s) ==
  IF Len(s) = 1 THEN DigitValue(s[1])
  ELSE 10 * ParseInt(SubSeq(s, 1, Len(s) - 1)) + DigitValue(s[Len(s)])

\* timestamp=None
None == [none |-> TRUE, float |-> FALSE, whole |-> 0, tenths |-> 0]

\* An int passed as timestamp.
IntTime(n) == [none |-> FALSE, float |-> FALSE, whole |-> n, tenths |-> 0]

\* A float as time.time() returns it, to a tenth of a second.
FloatTime(n, t) == [none |-> FALSE, float |-> TRUE, whole |-> n, tenths |-> t]

\* str(timestamp)
TimeStr(t) ==
  IF t.none THEN <<"N", "o", "n", "e">>
  ELSE IF t.float THEN IntToStr(t.whole) \o <<".">> \o IntToStr(t.tenths)
  ELSE IntToStr(t.whole)

\* s.replace(old, new) for one-character old and new.
Replace(s, old, new) == [i \in 1..Len(s) |-> IF s[i] = old THEN new ELSE s[i]]

\* regularize_name that leaves the dots in place.
regularize_nameKeepDots(s) == Replace(Replace(s, "+", "p"), "-", "m")

\* regularize_name = lambda s : s.replace("+","p").replace("-","m").replace(".","o")
regularize_name(s) ==
  Replace(Replace(Replace(s, "+", "p"), "-", "m"), ".", "o")

\* "{}_{}_{}".format(str(dir_prefix), regularize_name(str(dataset)), str(timestamp))
SaveDirName(prefix, ds, ts) ==
  prefix \o <<"_">> \o regularize_name(ds) \o <<"_">> \o TimeStr(ts)

\* mapping = ('-', '.', '+'), indexed as Python indexes a tuple: -1 is the
\* last element.
Mapping(i) == <<"-", ".", "+">>[IF i < 0 THEN 3 + i + 1 ELSE i + 1]

\* "H{}E{}T{}".format(*[mapping[i[0]] for i in (hematoxylin, eosin, thickness)])
DatasetCode(h, e, t) ==
  <<"H", Mapping(h[1]), "E", Mapping(e[1]), "T", Mapping(t[1])>>

\* Values of the stain flags -H, -E, -T ("-1/0/1"), each parsed with nargs=1.
StainFlags == {<<-1>>, <<0>>, <<1>>}

\* Dataset codes passed to run_solver: the codes the script builds.
Datasets == {DatasetCode(h, e, t) : h \in StainFlags, e \in StainFlags, t \in StainFlags}

\* dataset="H.E.T."
DefaultDataset == <<"H", ".", "E", ".", "T", ".">>

\* dir_prefix="run"
DefaultPrefix == <<"r", "u", "n">>

\* Directory prefixes passed to run_solver.
Prefixes == {DefaultPrefix, <<"e", "x", "+", "1">>}

\* Values time.time() returns.
ClockValues == {FloatTime(1000, 0), FloatTime(1000, 5)}

\* Timestamps passed to run_solver.
Timestamps == {None, IntTime(1000), IntTime(999)} \cup ClockValues

\* Model ids on the command line, as typed.
JobArgs == {<<"0">>, <<"1">>, <<"2">>, <<"9", "9">>}

\* Values of args.model: one to MaxJobs ids.
JobLists == UNION {[1..n -> JobArgs] : n \in 1..MaxJobs}

\* Values of args.comment, parsed with nargs=1.
Comments == {<<DefaultPrefix>>, <<<<"e", "x", "+", "1">>>>}

\* No exception has ended the script.
NoError == "none"

\* The entry of run_solver is passed, with the default dataset and prefix:
\* the state of the parameters when the training loop is entered.
EntryPassed ==
  /\ rpc = "body"
  /\ experiment_id = 0
  /\ timestamp = IntTime(1000)
  /\ dataset = DefaultDataset
  /\ dir_prefix = DefaultPrefix
  /\ savedir = SaveDirName(DefaultPrefix, DefaultDataset, IntTime(1000))

\* run_solver is not being called.
EntryIdle ==
  /\ rpc = "idle"
  /\ experiment_id = 0
  /\ timestamp = None
  /\ dataset = <<>>
  /\ dir_prefix = <<>>
  /\ savedir = <<>>

\* The script is not running: run_solver is called by another caller.
ScriptIdle ==
  /\ mpc = "idle"
  /\ args = [model |-> <<>>, hematoxylin |-> <<1>>, eosin |-> <<1>>,
             thickness |-> <<1>>, comment |-> <<DefaultPrefix>>]
  /\ dataset_code = <<>>
  /\ tic = None
  /\ ji = 0
  /\ model_id = 0
  /\ warnings = <<>>
  /\ started = <<>>
  /\ writes = <<>>
  /\ error = NoError

\* The training loop has not been entered; its inputs are fixed.
LoopIdle ==
  /\ pc = "entry"
  /\ nBatches = 0
  /\ nValBatches = 0
  /\ save_batch_freq = 1
  /\ save_time_freq = 0
  /\ now = 0
  /\ epoch = -1
  /\ batch = 0
  /\ val_batch = 0
  /\ it = 0
  /\ vit = 0
  /\ snap = 0
  /\ val_snap = 0
  /\ cur = NoReturn
  /\ losses = <<>>
  /\ regs = <<>>
  /\ returned = <<>>
  /\ trainWrites = <<>>
  /\ valWrites = <<>>
  /\ ckpts = <<>>
  /\ nRaised = 0
  /\ lastExc = NoExc
  /\ endedAt = "running"
  /\ interrupted = FALSE
  /\ valFails = 0
  /\ val_start = 0
  /\ passPreds = 0

(* ------------------------------- Init ---------------------------------- *)

Init ==
  /\ pc = "enter"
  /\ nBatches \in TrainBatchCounts
  /\ nValBatches \in ValBatchCounts
  /\ save_batch_freq \in SaveBatchFreqs
  /\ save_time_freq \in SaveTimeFreqs
  /\ now = 0
  /\ epoch = -1
  /\ batch = 0
  /\ val_batch = 0
  /\ it = 0
  /\ vit = 0
  /\ snap = 0
  /\ val_snap = 0
  /\ cur = NoReturn
  /\ losses = <<>>
  /\ regs = <<>>
  /\ returned = <<>>
  /\ trainWrites = <<>>
  /\ valWrites = <<>>
  /\ ckpts = <<>>
  /\ nRaised = 0
  /\ lastExc = NoExc
  /\ endedAt = "running"
  /\ interrupted = FALSE
  /\ valFails = 0
  /\ val_start = 0
  /\ passPreds = 0
  /\ EntryPassed
  /\ ScriptIdle

(* ------------------------------ actions -------------------------------- *)

\* snap = time.time(); val_snap = snap
Enter ==
  /\ pc = "enter"
  /\ snap' = now
  /\ val_snap' = now
  /\ pc' = "epoch"
  /\ UNCHANGED <<now, epoch, batch, val_batch, it, vit, cur, losses, regs>>
  /\ UNCHANGED <<hist, config>>

\* ForEpoch that leaves the batch counter as the previous epoch left it.
ForEpochKeepBatch ==
  /\ pc = "epoch"
  /\ IF epoch + 1 < NumEpochs
     THEN /\ epoch' = epoch + 1
          /\ val_batch' = 0
          /\ it' = 0
          /\ trainWrites' = <<>>
          /\ valWrites' = <<>>
          /\ pc' = "iter"
          /\ UNCHANGED <<endedAt, batch>>
     ELSE /\ pc' = "finalize"
          /\ endedAt' = "exhausted"
          /\ UNCHANGED <<epoch, batch, val_batch, it, trainWrites, valWrites>>
  /\ UNCHANGED <<now, vit, snap, val_snap, cur, losses, regs>>
  /\ UNCHANGED <<returned, ckpts, nRaised, lastExc, interrupted, valFails,
                 val_start, passPreds>>
  /\ UNCHANGED config

\* for epoch in range(20): batch = 0; val_batch = 0
ForEpoch ==
  /\ pc = "epoch"
  /\ IF epoch + 1 < NumEpochs
     THEN /\ epoch' = epoch + 1
          /\ batch' = 0
          /\ val_batch' = 0
          /\ it' = 0
          /\ trainWrites' = <<>>
          /\ valWrites' = <<>>
          /\ pc' = "iter"
          /\ UNCHANGED endedAt
     ELSE /\ pc' = "finalize"
          /\ endedAt' = "exhausted"
          /\ UNCHANGED <<epoch, batch, val_batch, it, trainWrites, valWrites>>
  /\ UNCHANGED <<now, vit, snap, val_snap, cur, losses, regs>>
  /\ UNCHANGED <<returned, ckpts, nRaised, lastExc, interrupted, valFails,
                 val_start, passPreds>>
  /\ UNCHANGED config

\* for inputs, targets in datagen.iterate(X, batch_size=64, shuffle=True)
NextBatch ==
  /\ pc = "iter"
  /\ IF it < nBatches
     THEN it' = it + 1 /\ pc' = "train"
     ELSE it' = it /\ pc' = "epoch"
  /\ UNCHANGED <<now, epoch, batch, val_batch, vit, snap, val_snap, cur,
                 losses, regs>>
  /\ UNCHANGED <<hist, config>>

\* error, loss, reg, pred = train_fn(...); batch += 1
TrainFn ==
  /\ pc = "train"
  /\ \E d \in Durations : Elapse(d)
  /\ cur' = [loss |-> LossOf(Len(returned) + 1), reg |-> RegOf(Len(returned) + 1)]
  /\ returned' = Append(returned, cur')
  /\ batch' = batch + 1
  /\ pc' = "output"
  /\ UNCHANGED <<epoch, val_batch, it, vit, snap, val_snap, losses, regs>>
  /\ UNCHANGED <<trainWrites, valWrites, ckpts, nRaised, lastExc, endedAt,
                 interrupted, valFails, val_start, passPreds>>
  /\ UNCHANGED config

\* if batch % save_batch_freq == 0 or time.time() - snap > save_time_freq
TrainOutput ==
  /\ pc = "output"
  /\ pc' = IF SnapshotDue(batch, now, snap, save_batch_freq, save_time_freq)
           THEN "imsave" ELSE "log"
  /\ UNCHANGED <<now, epoch, batch, val_batch, it, vit, snap, val_snap, cur,
                 losses, regs>>
  /\ UNCHANGED <<hist, config>>

\* io.imsave(".../model{}_ep{}_b{}.png", outp_image); netdump(layers)
TrainImsave ==
  /\ pc = "imsave"
  /\ \E d \in Durations : Elapse(d)
  /\ trainWrites' = Append(trainWrites, TrainFile(epoch, batch))
  /\ pc' = "snap"
  /\ UNCHANGED <<epoch, batch, val_batch, it, vit, snap, val_snap, cur,
                 losses, regs>>
  /\ UNCHANGED <<returned, valWrites, ckpts, nRaised, lastExc, endedAt, interrupted,
                 valFails, val_start, passPreds>>
  /\ UNCHANGED config

\* snap = time.time()
SnapReset ==
  /\ pc = "snap"
  /\ snap' = now
  /\ pc' = "log"
  /\ UNCHANGED <<now, epoch, batch, val_batch, it, vit, val_snap, cur, losses,
                 regs>>
  /\ UNCHANGED <<hist, config>>

\* LossesAppend that also writes a checkpoint after every batch.
LossesAppendAndDump ==
  /\ pc = "log"
  /\ losses' = Append(losses, cur.loss)
  /\ ckpts' = Append(ckpts, [losses |-> losses', regularization |-> regs])
  /\ pc' = "regs"
  /\ UNCHANGED <<now, epoch, batch, val_batch, it, vit, snap, val_snap, cur,
                 regs>>
  /\ UNCHANGED <<returned, trainWrites, valWrites, nRaised, lastExc, endedAt,
                 interrupted, valFails, val_start, passPreds>>
  /\ UNCHANGED config

\* LossesAppend that inserts the loss at the front of the list.
LossesPrepend ==
  /\ pc = "log"
  /\ losses' = <<cur.loss>> \o losses
  /\ pc' = "regs"
  /\ UNCHANGED <<now, epoch, batch, val_batch, it, vit, snap, val_snap, cur,
                 regs>>
  /\ UNCHANGED <<hist, config>>

\* log.info("#{}: loss ..."); losses.append(loss)
LossesAppend ==
  /\ pc = "log"
  /\ losses' = Append(losses, cur.loss)
  /\ pc' = "regs"
  /\ UNCHANGED <<now, epoch, batch, val_batch, it, vit, snap, val_snap, cur,
                 regs>>
  /\ UNCHANGED <<hist, config>>

\* regs.append(regs)
RegsAppend ==
  /\ pc = "regs"
  /\ regs' = Append(regs, RegsRef)
  /\ pc' = "valcheck"
  /\ UNCHANGED <<now, epoch, batch, val_batch, it, vit, snap, val_snap, cur,
                 losses>>
  /\ UNCHANGED <<hist, config>>

\* if time.time() - val_snap > save_time_freq: log.info("Start validation run")
ValCheck ==
  /\ pc = "valcheck"
  /\ IF ValidationDue(now, val_snap, save_time_freq)
     THEN /\ pc' = "val_iter"
          /\ vit' = 0
          /\ val_start' = now
          /\ passPreds' = 0
     ELSE /\ pc' = "iter"
          /\ UNCHANGED <<vit, val_start, passPreds>>
  /\ UNCHANGED <<now, epoch, batch, val_batch, it, snap, val_snap, cur, losses,
                 regs>>
  /\ UNCHANGED <<returned, trainWrites, valWrites, ckpts, nRaised, lastExc,
                 endedAt, interrupted, valFails>>
  /\ UNCHANGED config

\* for inputs, targets in datagen.iterate(Xv, ..., shuffle=False, augment=False)
\* and, when the iterator is exhausted, log.info("Finished validation run")
ValNext ==
  /\ pc = "val_iter"
  /\ IF vit < nValBatches
     THEN vit' = vit + 1 /\ pc' = "pred"
     ELSE vit' = vit /\ pc' = "val_snap"
  /\ UNCHANGED <<now, epoch, batch, val_batch, it, snap, val_snap, cur, losses,
                 regs>>
  /\ UNCHANGED <<hist, config>>

\* loss, pred = pred_fn(inputs, tools.crop(targets))
PredFn ==
  /\ pc = "pred"
  /\ \E d \in Durations : Elapse(d)
  /\ passPreds' = passPreds + 1
  /\ pc' = "val_imsave"
  /\ UNCHANGED <<epoch, batch, val_batch, it, vit, snap, val_snap, cur, losses,
                 regs>>
  /\ UNCHANGED <<returned, trainWrites, valWrites, ckpts, nRaised, lastExc,
                 endedAt, interrupted, valFails, val_start>>
  /\ UNCHANGED config

\* io.imsave(".../val_model{}_ep{}_b{}.png", outp_image); val_batch += 1
ValImsave ==
  /\ pc = "val_imsave"
  /\ \E d \in Durations : Elapse(d)
  /\ valWrites' = Append(valWrites, ValFile(epoch, val_batch))
  /\ val_batch' = val_batch + 1
  /\ pc' = "val_break"
  /\ UNCHANGED <<epoch, batch, it, vit, snap, val_snap, cur, losses, regs>>
  /\ UNCHANGED <<returned, trainWrites, ckpts, nRaised, lastExc, endedAt,
                 interrupted, valFails, val_start, passPreds>>
  /\ UNCHANGED config

\* if time.time() - val_snap > save_time_freq // 10: break
ValBreak ==
  /\ pc = "val_break"
  /\ pc' = IF ValBreakDue(now, val_snap, save_time_freq)
           THEN "val_snap" ELSE "val_iter"
  /\ UNCHANGED <<now, epoch, batch, val_batch, it, vit, snap, val_snap, cur,
                 losses, regs>>
  /\ UNCHANGED <<hist, config>>

\* ValSnapReset that resets the training-snapshot clock as well.
ValSnapResetBoth ==
  /\ pc = "val_snap"
  /\ val_snap' = now
  /\ snap' = now
  /\ pc' = "iter"
  /\ UNCHANGED <<now, epoch, batch, val_batch, it, vit, cur, losses, regs>>
  /\ UNCHANGED <<hist, config>>

\* val_snap = time.time()
ValSnapReset ==
  /\ pc = "val_snap"
  /\ val_snap' = now
  /\ pc' = "iter"
  /\ UNCHANGED <<now, epoch, batch, val_batch, it, vit, snap, cur, losses,
                 regs>>
  /\ UNCHANGED <<hist, config>>

\* log.info("Saving network"); weights = nn.layers.get_all_param_values(network)
GetParams ==
  /\ pc = "finalize"
  /\ pc' = "dump"
  /\ UNCHANGED <<now, epoch, batch, val_batch, it, vit, snap, val_snap, cur,
                 losses, regs>>
  /\ UNCHANGED <<hist, config>>

\* data = {...}; with open(...) as fp: pickle.dump(data, fp)
Dump ==
  /\ pc = "dump"
  /\ ckpts' = Append(ckpts, [losses |-> losses, regularization |-> regs])
  /\ pc' = "done"
  /\ UNCHANGED <<now, epoch, batch, val_batch, it, vit, snap, val_snap, cur,
                 losses, regs>>
  /\ UNCHANGED <<returned, trainWrites, valWrites, nRaised, lastExc, endedAt,
                 interrupted, valFails, val_start, passPreds>>
  /\ UNCHANGED config

\* An exception of the given kind is raised by the statement at pc and control
\* passes to its handler.  An io.imsave that raises may or may not have
\* written to its file first.
Raise(kind) ==
  /\ pc \in CanRaise(kind)
  /\ nRaised < MaxRaises
  /\ nRaised' = nRaised + 1
  /\ lastExc' = kind
  /\ pc' = Handler(pc, kind)
  /\ interrupted' = (interrupted \/ kind = KeyboardInterrupt)
  /\ valFails' = IF pc \in ValTryPcs THEN valFails + 1 ELSE valFails
  /\ endedAt' = IF pc \in OuterTryPcs THEN pc ELSE endedAt
  /\ \E wrote \in BOOLEAN :
       /\ trainWrites' = IF wrote /\ pc = "imsave"
                         THEN Append(trainWrites, TrainFile(epoch, batch))
                         ELSE trainWrites
       /\ valWrites' = IF wrote /\ pc = "val_imsave"
                       THEN Append(valWrites, ValFile(epoch, val_batch))
                       ELSE valWrites
  /\ UNCHANGED <<now, epoch, batch, val_batch, it, vit, snap, val_snap, cur,
                 losses, regs>>
  /\ UNCHANGED <<returned, ckpts, val_start, passPreds>>
  /\ UNCHANGED config

Next ==
  \/ Enter
  \/ ForEpoch
  \/ NextBatch
  \/ TrainFn
  \/ TrainOutput
  \/ TrainImsave
  \/ SnapReset
  \/ LossesAppend
  \/ RegsAppend
  \/ ValCheck
  \/ ValNext
  \/ PredFn
  \/ ValImsave
  \/ ValBreak
  \/ ValSnapReset
  \/ GetParams
  \/ Dump
  \/ \E kind \in ExcKinds : Raise(kind)

Spec == Init /\ [][Next]_vars

\* An Exception raised inside the validation try, which the bare except
\* catches: the only raise that does not leave the loop body.
ValRaise ==
  /\ pc \in ValTryPcs
  /\ Raise(Exception)

\* The run in which no interrupt occurs and no exception leaves the loop
\* body or the finalization.
QuietNext ==
  \/ Enter
  \/ ForEpoch
  \/ NextBatch
  \/ TrainFn
  \/ TrainOutput
  \/ TrainImsave
  \/ SnapReset
  \/ LossesAppend
  \/ RegsAppend
  \/ ValCheck
  \/ ValNext
  \/ PredFn
  \/ ValImsave
  \/ ValBreak
  \/ ValSnapReset
  \/ GetParams
  \/ Dump
  \/ ValRaise

\* The run is sequential and every call of the loop body returns or raises,
\* so a statement that can run does run.
QuietSpec == Init /\ [][QuietNext]_vars /\ WF_vars(QuietNext)

(* ----------------------- entry of run_solver --------------------------- *)

\* The unchanged state of the training loop.
LoopStays == UNCHANGED <<prog, hist, loopcfg>>

\* if timestamp is None: timestamp = time.time()
DefaultTimestamp ==
  /\ rpc = "timestamp"
  /\ IF timestamp.none
     THEN timestamp' \in ClockValues
     ELSE timestamp' = timestamp
  /\ rpc' = "savedir"
  /\ UNCHANGED <<experiment_id, dataset, dir_prefix, savedir>>
  /\ UNCHANGED script
  /\ LoopStays

\* X, Xv = get_dataset(...); savedir = tools.require_dir("{}_{}_{}".format(...))
RequireDir ==
  /\ rpc = "savedir"
  /\ savedir' = SaveDirName(dir_prefix, dataset, timestamp)
  /\ rpc' = "body"
  /\ UNCHANGED <<experiment_id, timestamp, dataset, dir_prefix>>
  /\ UNCHANGED script
  /\ LoopStays

\* run_solver called with a dataset code, a prefix and a timestamp (or None).
DirInit ==
  /\ LoopIdle
  /\ ScriptIdle
  /\ rpc = "timestamp"
  /\ experiment_id = 0
  /\ timestamp \in Timestamps
  /\ dataset \in Datasets
  /\ dir_prefix \in Prefixes
  /\ savedir = <<>>

DirNext ==
  \/ DefaultTimestamp
  \/ RequireDir

\* The entry of run_solver, up to the save directory.
DirSpec == DirInit /\ [][DirNext]_vars

(* ------------------------------ the script ----------------------------- *)

\* def run_solver(model, experiment_id, timestamp=None, save_batch_freq=100,
\*                save_time_freq=240, dataset="H.E.T.", dir_prefix="run")
RunSolverParams ==
  [names |-> <<"model", "experiment_id", "timestamp", "save_batch_freq",
               "save_time_freq", "dataset", "dir_prefix">>,
   required |-> 2]

\* The parameters the docstring of run_solver documents in place of model
\* (train_fn, network, layers), followed by the rest of the def line.
DocumentedParams ==
  [names |-> <<"train_fn", "network", "layers", "experiment_id", "timestamp",
               "save_batch_freq", "save_time_freq", "dataset", "dir_prefix">>,
   required |-> 4]

\* Python's binding of a call with positional arguments pos and keyword
\* arguments kw raises TypeError: too many positional arguments, a keyword
\* that names no parameter, a parameter given both ways, or a parameter
\* without default left unbound.
BindError(params, pos, kw) ==
  \/ Len(pos) > Len(params.names)
  \/ \E k \in DOMAIN kw : \A i \in 1..Len(params.names) : params.names[i] # k
  \/ \E i \in 1..Len(params.names) : i <= Len(pos) /\ params.names[i] \in DOMAIN kw
  \/ \E i \in 1..params.required : i > Len(pos) /\ params.names[i] \notin DOMAIN kw

\* The value the call binds to the parameter name (default when unbound).
ArgOf(params, pos, kw, name, default) ==
  IF \E i \in 1..Len(pos) : params.names[i] = name
  THEN pos[CHOOSE i \in 1..Len(pos) : params.names[i] = name]
  ELSE IF name \in DOMAIN kw THEN kw[name] ELSE default

\* str(experiment_id) + ".npz"
CheckpointName(id) == IntToStr(id) \o <<".", "n", "p", "z">>

\* "model{}_ep{}_b{}.png".format(experiment_id, epoch, batch)
SnapshotName(id, e, b) ==
  <<"m", "o", "d", "e", "l">> \o IntToStr(id) \o <<"_", "e", "p">>
    \o IntToStr(e) \o <<"_", "b">> \o IntToStr(b) \o <<".", "p", "n", "g">>

\* The script starts with its command line parsed.
MainInit ==
  /\ LoopIdle
  /\ EntryIdle
  /\ mpc = "main"
  /\ args \in [model : JobLists, hematoxylin : StainFlags, eosin : StainFlags,
               thickness : StainFlags, comment : Comments]
  /\ dataset_code = <<>>
  /\ tic = None
  /\ ji = 0
  /\ model_id = 0
  /\ warnings = <<>>
  /\ started = <<>>
  /\ writes = <<>>
  /\ error = NoError

\* mapping = ('-', '.', '+'); dataset_code = "H{}E{}T{}".format(...)
BuildCode ==
  /\ mpc = "main"
  /\ dataset_code' = DatasetCode(args.hematoxylin, args.eosin, args.thickness)
  /\ mpc' = "tic"
  /\ UNCHANGED <<args, tic, ji, model_id, warnings, started, writes, error>>
  /\ UNCHANGED entry
  /\ LoopStays

\* joblist = args.model; tic = time.time()
StartJobs ==
  /\ mpc = "tic"
  /\ tic' \in ClockValues
  /\ ji' = 0
  /\ mpc' = "for"
  /\ UNCHANGED <<args, dataset_code, model_id, warnings, started, writes,
                 error>>
  /\ UNCHANGED entry
  /\ LoopStays

\* for model_id in joblist: model_id = int(model_id) - 1;
\* if model_id < 0 or model_id >= len(modellist): log.warning(...); continue
\* and, after the loop, log.info("__DONE__")
ForJob ==
  /\ mpc = "for"
  /\ IF ji < Len(args.model)
     THEN /\ ji' = ji + 1
          /\ model_id' = ParseInt(args.model[ji + 1]) - 1
          /\ IF model_id' < 0 \/ model_id' >= NumModels
             THEN /\ warnings' = Append(warnings, model_id')
                  /\ mpc' = "for"
             ELSE /\ mpc' = "build"
                  /\ UNCHANGED warnings
     ELSE /\ mpc' = "done"
          /\ UNCHANGED <<ji, model_id, warnings>>
  /\ UNCHANGED <<args, dataset_code, tic, started, writes, error>>
  /\ UNCHANGED entry
  /\ LoopStays

\* get_model = modellist[int(model_id)]; hyperparams = load_config();
\* train_fn, pred_fn, network, layers = compile(...)
BuildGraph ==
  /\ mpc = "build"
  /\ mpc' = "call"
  /\ UNCHANGED <<args, dataset_code, tic, ji, model_id, warnings, started,
                 writes, error>>
  /\ UNCHANGED entry
  /\ LoopStays

\* run_solver(train_fn, network, layers, model_id, timestamp=tic,
\*            dataset=dataset_code, dir_prefix=args.comment[0])
\* bound to the parameter list params.
CallRunSolver(params) ==
  /\ mpc = "call"
  /\ LET pos == <<"train_fn", "network", "layers", model_id>>
         kw == [timestamp |-> tic, dataset |-> dataset_code,
                dir_prefix |-> args.comment[1]]
     IN IF BindError(params, pos, kw)
        THEN /\ error' = "TypeError"
             /\ mpc' = "aborted"
             /\ UNCHANGED started
             /\ UNCHANGED entry
        ELSE /\ experiment_id' = ArgOf(params, pos, kw, "experiment_id", 0)
             /\ timestamp' = ArgOf(params, pos, kw, "timestamp", None)
             /\ dataset' = ArgOf(params, pos, kw, "dataset", DefaultDataset)
             /\ dir_prefix' = ArgOf(params, pos, kw, "dir_prefix", DefaultPrefix)
             /\ savedir' = <<>>
             /\ rpc' = "timestamp"
             /\ started' = Append(started, experiment_id')
             /\ mpc' = "running"
             /\ UNCHANGED error
  /\ UNCHANGED <<args, dataset_code, tic, ji, model_id, warnings, writes>>
  /\ LoopStays

\* The run from the training loop to its end, by the files it leaves in the
\* save directory: a training snapshot of the first batch (when the cadence
\* asks for one) and the checkpoint; when the finalization raises there is
\* no checkpoint and the exception ends the script.
RunBody ==
  /\ mpc = "running"
  /\ rpc = "body"
  /\ \E snapshot \in BOOLEAN, dumped \in BOOLEAN :
       /\ writes' =
            writes
            \o (IF snapshot
                THEN <<[run |-> Len(started), dir |-> savedir,
                        file |-> SnapshotName(experiment_id, 0, 1)]>>
                ELSE <<>>)
            \o (IF dumped
                THEN <<[run |-> Len(started), dir |-> savedir,
                        file |-> CheckpointName(experiment_id)]>>
                ELSE <<>>)
       /\ IF dumped
          THEN /\ mpc' = "for"
               /\ UNCHANGED error
          ELSE /\ mpc' = "aborted"
               /\ error' = "Exception"
  /\ rpc' = "idle"
  /\ UNCHANGED <<experiment_id, timestamp, dataset, dir_prefix, savedir>>
  /\ UNCHANGED <<args, dataset_code, tic, ji, model_id, warnings, started>>
  /\ LoopStays

MainNext ==
  \/ BuildCode
  \/ StartJobs
  \/ ForJob
  \/ BuildGraph
  \/ CallRunSolver(RunSolverParams)

\* The script as written: the call of run_solver is bound to its def line.
MainSpec == MainInit /\ [][MainNext]_vars

JobNext ==
  \/ BuildCode
  \/ StartJobs
  \/ ForJob
  \/ BuildGraph
  \/ CallRunSolver(DocumentedParams)
  \/ DefaultTimestamp
  \/ RequireDir
  \/ RunBody

\* The script with the call of run_solver bound to the documented parameter
\* list, under which the job loop starts runs.
JobSpec == MainInit /\ [][JobNext]_vars

\* int(model_id) - 1 for every entry of a job list.
JobIds(list) == [i \in 1..Len(list) |-> ParseInt(list[i]) - 1]

\* A model id the job loop accepts.
ValidId(id) == id >= 0 /\ id < NumModels

\* A model id the job loop skips.
InvalidId(id) == ~ValidId(id)

(* ------------------------------ helpers -------------------------------- *)

\* The elements of a sequence.
Range(q) == {q[i] : i \in 1..Len(q)}

\* No element occurs twice in the sequence.
NoDuplicates(q) == \A i, j \in 1..Len(q) : q[i] = q[j] => i = j

\* The losses of the first k train_fn returns, in invocation order.
FirstLosses(k) == [i \in 1..k |-> returned[i].loss]

\* The step raises an exception.
Raising == nRaised' = nRaised + 1

\* Positions of the loop, the validation run included.
LoopPcs == OuterTryPcs \cup ValTryPcs

\* The types and ranges of the program variables.
TypeOK ==
  /\ pc \in ValTryPcs \cup OuterTryPcs \cup FinalPcs \cup EndPcs
  /\ epoch \in -1..(NumEpochs - 1)
  /\ batch \in 0..nBatches
  /\ it \in 0..nBatches
  /\ vit \in 0..nValBatches
  /\ snap <= now /\ val_snap <= now
  /\ now \in 0..MaxTime
  /\ Len(ckpts) <= 1

(* ------------------------------- claims -------------------------------- *)

C2_TraceLengthIsReturns ==
  pc = "dump" => Len(losses) = Len(returned)

\* C3: every KeyboardInterrupt raised inside the training loop, the
\* validation run included, stops the iteration: the next statement the run
\* executes is finalization.
C3_InterruptStopsLoop ==
  [][ Raising /\ lastExc' = KeyboardInterrupt /\ pc \in LoopPcs
        => pc' = "finalize" ]_vars

\* C4: after a KeyboardInterrupt raised when K batches have been recorded,
\* the trace stays at those K entries and the one checkpoint written holds
\* exactly the losses of the first K train_fn returns, in invocation order.
C4_InterruptKeepsFirstK ==
  [][ interrupted =>
        /\ losses' = losses
        /\ ckpts' # ckpts =>
             ckpts' = <<[losses |-> FirstLosses(Len(losses)),
                         regularization |-> regs]>> ]_vars

\* C5: while validation batches remain, a validation pass stops after a
\* batch exactly when the time elapsed since the start of that pass exceeds
\* save_time_freq / 10, and otherwise goes on to the next validation batch.
C5_ValidationTimeBox ==
  [][ pc = "val_break" /\ vit < nValBatches /\ ~Raising
        => (pc' = "val_snap" <=>
              (now - val_start) * ValBudgetDivisor > save_time_freq) ]_vars

\* C6: a failure raised inside the validation run is caught: it leaves
\* losses, epoch and batch unchanged and passes control to the reset of the
\* validation clock, which sets val_snap to the current time and hands over to
\* the training iterator, which yields the next batch of the epoch if one
\* remains; the loop is never ended from inside the validation run.
C6_ValidationFailureContained ==
  [][ /\ Raising /\ pc \in ValTryPcs
          => pc' = "val_snap" /\ UNCHANGED <<losses, epoch, batch, endedAt>>
      /\ ~Raising /\ pc = "val_snap"
          => /\ val_snap' = now'
             /\ pc' = "iter"
             /\ UNCHANGED <<losses, epoch, batch>>
      /\ ~Raising /\ pc = "iter" /\ it < nBatches => pc' = "train"
      /\ endedAt' \notin ValTryPcs ]_vars

\* C6 witness: after a failed validation run the next batch is being trained.
C6_Witness ==
  /\ valFails > 0
  /\ pc = "train"
  /\ endedAt = "running"

C8_SnapshotCadence ==
  [][ /\ pc = "output" /\ ~Raising
          => /\ pc' \in {"imsave", "log"}
             /\ pc' = "imsave" <=>
                  (batch % save_batch_freq = 0 \/ now - snap > save_time_freq)
      /\ trainWrites' # trainWrites /\ pc # "epoch"
          => pc = "imsave" /\ trainWrites' = Append(trainWrites, TrainFile(epoch, batch))
      /\ pc' \in LoopPcs
          => \A k \in 1..(batch' - 1) :
               k % save_batch_freq = 0 => TrainFile(epoch', k) \in Range(trainWrites') ]_vars

\* C8 witness: a snapshot fired by the time trigger alone is being written.
C8_Witness ==
  /\ pc = "imsave"
  /\ batch % save_batch_freq # 0
  /\ now - snap > save_time_freq

\* C9: the regularization trace of the checkpoint holds, for the i-th
\* recorded batch, the regularization scalar of the i-th train_fn return.
C9_RegularizationScalars ==
  \A c \in Range(ckpts) :
    \A i \in 1..Len(c.regularization) :
      c.regularization[i] = Scalar(returned[i].reg)

\* C10: no snapshot file is written twice: the training image writes of an
\* epoch target distinct file names and so do its validation image writes
\* (the file names of different epochs differ in their epoch field).
C10_SnapshotsWriteOnce ==
  /\ NoDuplicates(trainWrites)
  /\ NoDuplicates(valWrites)
  /\ \A f \in Range(trainWrites) \cup Range(valWrites) : f[2] = epoch

\* C14: within a batch the loss of train_fn is recorded in the trace before
\* the snapshot-cadence policy is evaluated, so the batch's loss is already
\* in the trace when the policy is evaluated and when its training snapshot
\* is written.
C14_RecordBeforeSnapshot ==
  pc \in {"output", "imsave", "snap"} => Len(losses) = Len(returned)

\* C15: the training-snapshot clock is set, to the current time, only by the
\* statement that follows a training-snapshot write, and the validation
\* clock, to the current time, only by the statement that ends a validation
\* pass (or by the start of the loop, which sets both to the same time);
\* every way out of a validation pass (exhaustion, break, caught failure)
\* leads to that statement; a validation pass starts only when the time since
\* the validation clock is strictly greater than save_time_freq.
C15_IndependentClocks ==
  [][ /\ pc = "snap" /\ ~Raising => snap' = now /\ val_snap' = val_snap
      /\ pc = "val_snap" /\ ~Raising => val_snap' = now /\ snap' = snap
      /\ pc = "enter" /\ ~Raising => snap' = now /\ val_snap' = now
      /\ snap' # snap => pc \in {"snap", "enter"}
      /\ val_snap' # val_snap => pc \in {"val_snap", "enter"}
      /\ pc \in ValTryPcs => pc' \in ValTryPcs \cup {"val_snap"}
      /\ pc \notin ValTryPcs /\ pc' \in ValTryPcs
           => pc = "valcheck" /\ now - val_snap > save_time_freq ]_vars

\* C15 witness: after a validation pass that followed a training snapshot
\* written earlier, the two clocks differ.
C15_Witness ==
  /\ pc = "iter"
  /\ Len(trainWrites) > 0
  /\ Len(valWrites) > 0
  /\ snap < val_snap

\* C17: in every step the losses trace stays the same or grows by exactly one
\* entry at its end, and the appended entry is the loss of a train_fn
\* invocation later than the one whose loss was the last entry before, so the
\* entries are in the order of the invocations that returned them.
C17_TraceAppendOnly ==
  [][ /\ \/ losses' = losses
         \/ /\ Len(losses') = Len(losses) + 1
            /\ SubSeq(losses', 1, Len(losses)) = losses
      /\ losses' # losses
           => \E n \in 1..Len(returned) :
                /\ returned[n].loss = losses'[Len(losses')]
                /\ Len(losses) > 0
                     => \E m \in 1..(n - 1) :
                          returned[m].loss = losses[Len(losses)] ]_vars

\* C17 witness: the trace holds entries of two epochs, after a training
\* snapshot and a validation pass.
C17_Witness ==
  /\ Len(losses) >= 3
  /\ epoch >= 1
  /\ val_snap > 0
  /\ snap > 0

\* C18: every validation pass has at most one pred_fn return; a pass is at
\* the head of its iterator only before its first batch, and a pass that ends
\* without raising over a non-empty validation set has exactly one.
C18_OnePredPerPass ==
  [][ /\ passPreds' <= 1
      /\ pc' = "val_iter" => passPreds' = 0
      /\ pc' = "pred" => passPreds' = 0
      /\ pc \in ValTryPcs /\ pc' = "val_snap" /\ ~Raising
           => passPreds' = IF nValBatches > 0 THEN 1 ELSE 0 ]_vars

\* C18 witness: a pass over two validation batches has ended by the break
\* after its first batch.
C18_Witness ==
  /\ pc = "val_snap"
  /\ nValBatches = 2
  /\ vit = 1
  /\ passPreds = 1
  /\ valFails = 0

\* C19: an exception raised while the training snapshot is written ends the
\* run: control passes to finalization and never returns to the loop, train_fn
\* is not invoked again, and the loss of the batch that triggered the
\* snapshot is neither in the trace nor in the checkpoint.
C19_SnapshotFailureEndsRun ==
  [][ /\ Raising /\ pc = "imsave" => pc' = "finalize"
      /\ endedAt' = "imsave"
           => /\ pc' \notin LoopPcs
              /\ Len(losses') = Len(returned') - 1
              /\ \A c \in Range(ckpts') :
                   c.losses = FirstLosses(Len(returned) - 1)
      /\ endedAt = "imsave" => returned' = returned ]_vars

\* C19 witness: the run whose snapshot write raised an Exception in its
\* second batch has written its checkpoint.
C19_Witness ==
  /\ pc = "done"
  /\ endedAt = "imsave"
  /\ lastExc = Exception
  /\ Len(returned) = 2
  /\ Len(ckpts) = 1

\* C16: when no interrupt occurs and no exception leaves the loop body, the
\* loop visits the epochs 0..19 in order, the batch counter is zero at the
\* start of every epoch, the loop is left only after epoch 19 with train_fn
\* invoked exactly 20 * B times, and the run reaches finalization.
C16_LoopRunsToFinalization ==
  /\ [][ /\ epoch' \in {epoch, epoch + 1}
         /\ epoch' # epoch => batch' = 0 /\ pc' = "iter"
         /\ pc = "iter" /\ it = 0 => batch = 0
         /\ pc \in LoopPcs /\ pc' \notin LoopPcs
              => /\ pc' = "finalize"
                 /\ epoch = NumEpochs - 1
                 /\ Len(returned) = NumEpochs * nBatches ]_vars
  /\ <>(pc = "finalize")

\* C16 witness: the run over two training batches per epoch, with a caught
\* validation failure on the way, has left the loop after 40 invocations.
C16_Witness ==
  /\ pc = "done"
  /\ endedAt = "exhausted"
  /\ nBatches = 2
  /\ valFails = 1
  /\ Len(returned) = 2 * NumEpochs

C12_SkipInvalidRunValid ==
  mpc \in {"done", "aborted"}
    => /\ started = SelectSeq(JobIds(args.model), ValidId)
       /\ warnings = SelectSeq(JobIds(args.model), InvalidId)

\* C13: the save directory name is the prefix, "_", the dataset code with
\* every '+' replaced by 'p', every '-' by 'm', every '.' by 'o' and the other
\* characters unchanged, "_", and the timestamp; for dataset code H.E+T-,
\* timestamp 1000 and prefix run it is run_HoEpTm_1000.
C13_SaveDirName ==
  rpc = "body" =>
    LET n == Len(dir_prefix)
        k == Len(dataset)
        t == TimeStr(timestamp)
    IN /\ Len(savedir) = n + k + Len(t) + 2
       /\ SubSeq(savedir, 1, n) = dir_prefix
       /\ savedir[n + 1] = "_"
       /\ \A i \in 1..k :
            savedir[n + 1 + i] = CASE dataset[i] = "+" -> "p"
                                   [] dataset[i] = "-" -> "m"
                                   [] dataset[i] = "." -> "o"
                                   [] OTHER -> dataset[i]
       /\ savedir[n + k + 2] = "_"
       /\ SubSeq(savedir, n + k + 3, Len(savedir)) = t
       /\ ( /\ dir_prefix = <<"r", "u", "n">>
            /\ dataset = <<"H", ".", "E", "+", "T", "-">>
            /\ timestamp = IntTime(1000) )
            => savedir = <<"r", "u", "n", "_", "H", "o", "E", "p", "T", "m",
                           "_", "1", "0", "0", "0">>

\* C13 witness: run_solver called with H.E+T-, 1000 and run has required
\* the directory run_HoEpTm_1000.
C13_Witness ==
  /\ rpc = "body"
  /\ mpc = "idle"
  /\ pc = "entry"
  /\ dataset = <<"H", ".", "E", "+", "T", "-">>
  /\ timestamp = IntTime(1000)
  /\ savedir = <<"r", "u", "n", "_", "H", "o", "E", "p", "T", "m",
                 "_", "1", "0", "0", "0">>

====
